---- MODULE Spec2Model ----
(***************************************************************************)
(* Model of invert.py: main() and invert_image(input_path, output_path).   *)
(* The program opens <cwd>/logo.png, normalises its mode, inverts the      *)
(* colour channels (keeping the alpha band of an RGBA image), saves the    *)
(* result as <cwd>/logo_inverted.png and prints one line.                  *)
(*                                                                         *)
(* An image is a record [mode, size, px, loaded]: px is the row-major      *)
(* sequence of pixels, a pixel is the tuple of its 8-bit band samples.     *)
(* A file is a record [kind, perm, data]: data is the encoded stream,      *)
(* a header <<signature, colour type, width, height>> followed by the      *)
(* interleaved samples.                                                    *)
(***************************************************************************)
EXTENDS Integers, Sequences, FiniteSets, TLC

VARIABLES fs, pc, img, bands, rgb, inverted_rgb, inverted, exc, stdout,
          status, trace, fs0, first, run

vars == <<fs, pc, img, bands, rgb, inverted_rgb, inverted, exc, stdout,
          status, trace, fs0, first, run>>

-----------------------------------------------------------------------------
(* Bounds of the model *)

MaxW == 2
MaxH == 1
MaxRuns == 2

-----------------------------------------------------------------------------
(* Paths: main(), lines 35-40 *)

input_file == "logo.png"
output_file == "logo_inverted.png"
cwd == "cwd"

Join(dir, name) == <<dir, name>>

input_path == Join(cwd, input_file)
output_path == Join(cwd, output_file)

Paths == {input_path, output_path}

-----------------------------------------------------------------------------
(* Images *)

MaxSample == 255

Modes == {"L", "LA", "RGB", "RGBA"}

NumBands(mode) ==
    CASE mode = "L" -> 1
      [] mode = "LA" -> 2
      [] mode = "RGB" -> 3
      [] mode = "RGBA" -> 4
      [] OTHER -> 0

NoImage == [mode |-> "none", size |-> <<0, 0>>, px |-> <<>>, loaded |-> FALSE]

NoBands == <<>>

MkImage(mode, w, h, px) ==
    [mode |-> mode, size |-> <<w, h>>, px |-> px, loaded |-> TRUE]

(* Encoder and decoder of the image file (Image.save / Image.open + load) *)

PNG_SIGNATURE == 137
HeaderLen == 4

ColorType(mode) ==
    CASE mode = "L" -> 0
      [] mode = "RGB" -> 2
      [] mode = "LA" -> 4
      [] mode = "RGBA" -> 6
      [] OTHER -> 99

ModeOfColorType(ct) ==
    CASE ct = 0 -> "L"
      [] ct = 2 -> "RGB"
      [] ct = 4 -> "LA"
      [] ct = 6 -> "RGBA"
      [] OTHER -> "none"

RECURSIVE Flatten(_)
Flatten(px) ==
    IF px = <<>> THEN <<>> ELSE Head(px) \o Flatten(Tail(px))

Encode(im) ==
    <<PNG_SIGNATURE, ColorType(im.mode), im.size[1], im.size[2]>> \o Flatten(im.px)

HeaderOK(data) ==
    /\ Len(data) >= HeaderLen
    /\ data[1] = PNG_SIGNATURE
    /\ ModeOfColorType(data[2]) \in Modes
    /\ data[3] >= 1
    /\ data[4] >= 1

DecodeHeader(data) ==
    [mode |-> ModeOfColorType(data[2]), size |-> <<data[3], data[4]>>,
     px |-> <<>>, loaded |-> FALSE]

BodyOK(data) ==
    Len(data) - HeaderLen = data[3] * data[4] * NumBands(ModeOfColorType(data[2]))

DecodePixels(data) ==
    LET n == NumBands(ModeOfColorType(data[2]))
    IN  [i \in 1..(data[3] * data[4]) |->
            SubSeq(data, HeaderLen + (i - 1) * n + 1, HeaderLen + i * n)]

Decode(data) ==
    [mode |-> ModeOfColorType(data[2]), size |-> <<data[3], data[4]>>,
     px |-> DecodePixels(data), loaded |-> TRUE]

-----------------------------------------------------------------------------
(* The image operations invert_image calls *)

(* mutant: the grey level goes to the red band only *)
ConvertPixel_RedOnly(mode, p) ==
    CASE mode = "L" -> <<p[1], 0, 0>>
      [] mode = "LA" -> <<p[1], 0, 0>>
      [] mode = "RGB" -> p
      [] mode = "RGBA" -> <<p[1], p[2], p[3]>>
      [] OTHER -> p

(* img.convert("RGB"), line 13: grey bands are replicated, alpha is dropped *)
ConvertPixel(mode, p) ==
    CASE mode = "L" -> <<p[1], p[1], p[1]>>
      [] mode = "LA" -> <<p[1], p[1], p[1]>>
      [] mode = "RGB" -> p
      [] mode = "RGBA" -> <<p[1], p[2], p[3]>>
      [] OTHER -> p

convert(im, mode) ==
    [mode |-> mode, size |-> im.size,
     px |-> [i \in 1..Len(im.px) |-> ConvertPixel(im.mode, im.px[i])],
     loaded |-> TRUE]

(* img.split(), lines 17 and 20: one single-band image per band *)
Band(im, c) ==
    [mode |-> "L", size |-> im.size,
     px |-> [i \in 1..Len(im.px) |-> <<im.px[i][c]>>], loaded |-> TRUE]

split(im) == [c \in 1..NumBands(im.mode) |-> Band(im, c)]

(* Image.merge(mode, bands), lines 18 and 20 *)
MergeOK(mode, bs) ==
    /\ Len(bs) = NumBands(mode)
    /\ \A c \in 1..Len(bs) : bs[c].mode = "L" /\ bs[c].size = bs[1].size

merge(mode, bs) ==
    [mode |-> mode, size |-> bs[1].size,
     px |-> [i \in 1..Len(bs[1].px) |-> [c \in 1..Len(bs) |-> bs[c].px[i][1]]],
     loaded |-> TRUE]

(* mutant: the table is built from 256, not 255 *)
lut_From256(v) == 256 - v

(* ImageOps.invert(image), lines 19 and 22: the table 255, 254, ..., 0 is
   applied to every band of the image *)
lut(v) == MaxSample - v

(* mutant: the result is created with width and height exchanged *)
invert_Transposed(im) ==
    [mode |-> im.mode, size |-> <<im.size[2], im.size[1]>>,
     px |-> [i \in 1..Len(im.px) |-> [c \in 1..Len(im.px[i]) |-> MaxSample - im.px[i][c]]],
     loaded |-> TRUE]

InvertPixel(p) == [c \in 1..Len(p) |-> lut(p[c])]

invert(im) ==
    [mode |-> im.mode, size |-> im.size,
     px |-> [i \in 1..Len(im.px) |-> InvertPixel(im.px[i])], loaded |-> TRUE]

-----------------------------------------------------------------------------
(* Files *)

Absent == [kind |-> "absent", perm |-> "none", data |-> <<>>]

(* a symbolic link whose target lies in a directory that does not exist *)
Dangling == [kind |-> "dangling", perm |-> "none", data |-> <<>>]

File(perm, data) == [kind |-> "file", perm |-> perm, data |-> data]

(* what a write that fails part-way leaves behind: the header, no samples *)
Partial(data) == SubSeq(data, 1, HeaderLen)

(* Exceptions: FileNotFoundError, PermissionError and UnidentifiedImageError
   are subclasses of OSError, and all of them of Exception *)
NoExc == [type |-> "none", msg |-> ""]

Exc(type, msg) == [type |-> type, msg |-> msg]

ExceptionTypes ==
    {"FileNotFoundError", "PermissionError", "UnidentifiedImageError",
     "OSError", "ValueError"}

(* Lines printed to standard output, lines 25, 28 and 31 *)
SavedLine(path) == [fmt |-> "Saved inverted image as: {output_path}", arg |-> path[2]]

NotFoundLine ==
    [fmt |-> "Error: logo.png not found in current directory.", arg |-> ""]

ErrorLine(e) == [fmt |-> "Error: {e}", arg |-> e.msg]

Running == -1

-----------------------------------------------------------------------------
(* Inputs of the model *)

Palette(mode) ==
    CASE mode = "L" -> {<<0>>, <<128>>, <<255>>}
      [] mode = "LA" -> {<<0, 255>>, <<128, 0>>, <<255, 128>>}
      [] mode = "RGB" -> {<<10, 20, 30>>, <<0, 255, 128>>, <<255, 255, 255>>}
      [] mode = "RGBA" -> {<<10, 20, 30, 255>>, <<0, 255, 128, 0>>, <<200, 0, 55, 128>>}
      [] OTHER -> {}

InputImages ==
    UNION {{MkImage(m, w, h, px) : px \in [1..(w * h) -> Palette(m)]} :
              <<m, w, h>> \in Modes \X (1..MaxW) \X (1..MaxH)}

Truncate(data) == SubSeq(data, 1, Len(data) - 1)

Garbage == <<0, 0, 0, 0>>

OldOutput == Encode(MkImage("RGB", 1, 1, <<(<<1, 2, 3>>)>>))

InputFiles ==
    {Absent, File("none", OldOutput), File("rw", Garbage)}
      \cup {File("rw", Encode(im)) : im \in InputImages}
      \cup {File("rw", Truncate(Encode(im))) : im \in InputImages}

OutputFiles == {Absent, Dangling, File("rw", OldOutput), File("r", OldOutput)}

-----------------------------------------------------------------------------
(* State machine *)

Init ==
    /\ fs \in {[p \in Paths |-> IF p = input_path THEN fi ELSE fo] :
                  <<fi, fo>> \in InputFiles \X OutputFiles}
    /\ pc = "start"
    /\ img = NoImage
    /\ bands = NoBands
    /\ rgb = NoImage
    /\ inverted_rgb = NoImage
    /\ inverted = NoImage
    /\ exc = NoExc
    /\ stdout = <<>>
    /\ status = Running
    /\ trace = <<>>
    /\ fs0 = fs
    /\ first = fs[input_path]
    /\ run = 1

locals == <<img, bands, rgb, inverted_rgb, inverted>>
ghosts == <<fs0, first, run>>

(* an exception raised inside the try block, lines 8-24, reaches the handlers *)
Raise(e) ==
    /\ exc' = e
    /\ pc' = "except"

(* the pixel data of an opened image is read from the file on first use *)
LoadFails(im) == ~im.loaded /\ ~BodyOK(fs[input_path].data)

Load(im) == IF im.loaded THEN im ELSE Decode(fs[input_path].data)

Truncated == Exc("OSError", "image file is truncated")

(* lines 34-42: main() calls invert_image(input_path, output_path) *)
main ==
    /\ pc = "start"
    /\ pc' = "open"
    /\ UNCHANGED <<fs, locals, exc, stdout, status, trace, ghosts>>

(* line 9: img = Image.open(input_path) *)
Open ==
    /\ pc = "open"
    /\ trace' = Append(trace, "open")
    /\ LET f == fs[input_path]
       IN  IF f.kind # "file"
             THEN /\ Raise(Exc("FileNotFoundError", "No such file or directory"))
                  /\ UNCHANGED img
             ELSE IF f.perm \notin {"r", "rw"}
             THEN /\ Raise(Exc("PermissionError", "Permission denied"))
                  /\ UNCHANGED img
             ELSE IF ~HeaderOK(f.data)
             THEN /\ Raise(Exc("UnidentifiedImageError", "cannot identify image file"))
                  /\ UNCHANGED img
             ELSE /\ img' = DecodeHeader(f.data)
                  /\ pc' = "normalize"
                  /\ UNCHANGED exc
    /\ UNCHANGED <<fs, bands, rgb, inverted_rgb, inverted, stdout, status, ghosts>>

(* mutant: the mode test is missing, no image is converted *)
Normalize_Skipped ==
    /\ pc = "normalize"
    /\ pc' = "dispatch"
    /\ UNCHANGED <<fs, locals, exc, stdout, status, trace, ghosts>>

(* lines 12-13: if img.mode not in ("RGB", "RGBA"): img = img.convert("RGB") *)
Normalize ==
    /\ pc = "normalize"
    /\ IF img.mode \notin {"RGB", "RGBA"}
         THEN /\ trace' = Append(trace, "convert")
              /\ IF LoadFails(img)
                   THEN /\ Raise(Truncated)
                        /\ UNCHANGED img
                   ELSE /\ img' = convert(Load(img), "RGB")
                        /\ pc' = "dispatch"
                        /\ UNCHANGED exc
         ELSE /\ pc' = "dispatch"
              /\ UNCHANGED <<img, exc, trace>>
    /\ UNCHANGED <<fs, bands, rgb, inverted_rgb, inverted, stdout, status, ghosts>>

(* lines 16-17: if img.mode == "RGBA": r, g, b, a = img.split() *)
Split ==
    /\ pc = "dispatch"
    /\ img.mode = "RGBA"
    /\ trace' = Append(trace, "split")
    /\ IF LoadFails(img)
         THEN /\ Raise(Truncated)
              /\ UNCHANGED <<img, bands>>
         ELSE IF Len(split(Load(img))) # 4
         THEN /\ Raise(Exc("ValueError", "not enough values to unpack"))
              /\ img' = Load(img)
              /\ UNCHANGED bands
         ELSE /\ img' = Load(img)
              /\ bands' = split(Load(img))
              /\ pc' = "merge_rgb"
              /\ UNCHANGED exc
    /\ UNCHANGED <<fs, rgb, inverted_rgb, inverted, stdout, status, ghosts>>

(* line 18: rgb = Image.merge("RGB", (r, g, b)) *)
MergeRGB ==
    /\ pc = "merge_rgb"
    /\ trace' = Append(trace, "merge_rgb")
    /\ LET rgbBands == <<bands[1], bands[2], bands[3]>>
       IN  IF MergeOK("RGB", rgbBands)
             THEN /\ rgb' = merge("RGB", rgbBands)
                  /\ pc' = "invert_rgb"
                  /\ UNCHANGED exc
             ELSE /\ Raise(Exc("ValueError", "wrong number of bands"))
                  /\ UNCHANGED rgb
    /\ UNCHANGED <<fs, img, bands, inverted_rgb, inverted, stdout, status, ghosts>>

(* line 19: inverted_rgb = ImageOps.invert(rgb) *)
InvertRGB ==
    /\ pc = "invert_rgb"
    /\ trace' = Append(trace, "invert")
    /\ inverted_rgb' = invert(rgb)
    /\ pc' = "merge_rgba"
    /\ UNCHANGED <<fs, img, bands, rgb, inverted, exc, stdout, status, ghosts>>

(* line 20: inverted = Image.merge("RGBA", ...), the bands of inverted_rgb
   followed by the band a *)
MergeRGBA ==
    /\ pc = "merge_rgba"
    /\ trace' = Append(trace, "merge_rgba")
    /\ LET allBands == split(inverted_rgb) \o <<bands[4]>>
       IN  IF MergeOK("RGBA", allBands)
             THEN /\ inverted' = merge("RGBA", allBands)
                  /\ pc' = "save"
                  /\ UNCHANGED exc
             ELSE /\ Raise(Exc("ValueError", "wrong number of bands"))
                  /\ UNCHANGED inverted
    /\ UNCHANGED <<fs, img, bands, rgb, inverted_rgb, stdout, status, ghosts>>

(* lines 21-22: else: inverted = ImageOps.invert(img) *)
InvertDirect ==
    /\ pc = "dispatch"
    /\ img.mode # "RGBA"
    /\ trace' = Append(trace, "invert")
    /\ IF LoadFails(img)
         THEN /\ Raise(Truncated)
              /\ UNCHANGED <<img, inverted>>
         ELSE /\ img' = Load(img)
              /\ inverted' = invert(Load(img))
              /\ pc' = "save"
              /\ UNCHANGED exc
    /\ UNCHANGED <<fs, bands, rgb, inverted_rgb, stdout, status, ghosts>>

(* line 24: inverted.save(output_path).  The file is opened for writing
   (created or truncated) and the encoded stream is written to it.  A write
   that fails part-way leaves a partial file, or removes a file this call
   created. *)
Save ==
    /\ pc = "save"
    /\ trace' = Append(trace, "save")
    /\ LET f == fs[output_path]
           data == Encode(inverted)
       IN  \/ /\ f.kind = "dangling"
              /\ Raise(Exc("FileNotFoundError", "No such file or directory"))
              /\ UNCHANGED fs
           \/ /\ f.kind = "file"
              /\ f.perm \notin {"w", "rw"}
              /\ Raise(Exc("PermissionError", "Permission denied"))
              /\ UNCHANGED fs
           \/ /\ f.kind = "absent" \/ (f.kind = "file" /\ f.perm \in {"w", "rw"})
              /\ fs' = [fs EXCEPT ![output_path] = File("rw", data)]
              /\ pc' = "print"
              /\ UNCHANGED exc
           \/ /\ f.kind = "absent" \/ (f.kind = "file" /\ f.perm \in {"w", "rw"})
              /\ Raise(Exc("OSError", "No space left on device"))
              /\ \/ fs' = [fs EXCEPT ![output_path] = File("rw", Partial(data))]
                 \/ /\ f.kind = "absent"
                    /\ UNCHANGED fs
    /\ UNCHANGED <<locals, stdout, status, ghosts>>

(* line 25: print(f"Saved inverted image as: {output_path}") *)
PrintSaved ==
    /\ pc = "print"
    /\ trace' = Append(trace, "print")
    /\ stdout' = Append(stdout, SavedLine(output_path))
    /\ pc' = "return"
    /\ UNCHANGED <<fs, locals, exc, status, ghosts>>

(* invert_image and main return; the interpreter exits with status 0 *)
Return ==
    /\ pc = "return"
    /\ status' = 0
    /\ pc' = "exit"
    /\ UNCHANGED <<fs, locals, exc, stdout, trace, ghosts>>

(* mutant: the general handler comes first and catches FileNotFoundError *)
ExceptFileNotFoundError_Shadowed ==
    /\ pc = "except"
    /\ exc.type = "FileNotFoundError"
    /\ trace' = Append(trace, "except Exception")
    /\ stdout' = Append(stdout, ErrorLine(exc))
    /\ status' = 1
    /\ pc' = "exit"
    /\ UNCHANGED <<fs, locals, exc, ghosts>>

(* lines 27-29: except FileNotFoundError *)
ExceptFileNotFoundError ==
    /\ pc = "except"
    /\ exc.type = "FileNotFoundError"
    /\ trace' = Append(trace, "except FileNotFoundError")
    /\ stdout' = Append(stdout, NotFoundLine)
    /\ status' = 1
    /\ pc' = "exit"
    /\ UNCHANGED <<fs, locals, exc, ghosts>>

(* mutant: sys.exit(1) is missing, the function returns normally *)
ExceptException_NoExit ==
    /\ pc = "except"
    /\ exc.type # "FileNotFoundError"
    /\ exc.type \in ExceptionTypes
    /\ trace' = Append(trace, "except Exception")
    /\ stdout' = Append(stdout, ErrorLine(exc))
    /\ pc' = "return"
    /\ UNCHANGED <<fs, locals, exc, status, ghosts>>

(* mutant: the handler removes the output file before exiting *)
ExceptException_Cleanup ==
    /\ pc = "except"
    /\ exc.type # "FileNotFoundError"
    /\ exc.type \in ExceptionTypes
    /\ trace' = Append(trace, "except Exception")
    /\ stdout' = Append(stdout, ErrorLine(exc))
    /\ fs' = [fs EXCEPT ![output_path] = IF @.kind = "file" THEN Absent ELSE @]
    /\ status' = 1
    /\ pc' = "exit"
    /\ UNCHANGED <<locals, exc, ghosts>>

(* lines 30-32: except Exception as e *)
ExceptException ==
    /\ pc = "except"
    /\ exc.type # "FileNotFoundError"
    /\ exc.type \in ExceptionTypes
    /\ trace' = Append(trace, "except Exception")
    /\ stdout' = Append(stdout, ErrorLine(exc))
    /\ status' = 1
    /\ pc' = "exit"
    /\ UNCHANGED <<fs, locals, exc, ghosts>>

(* The environment: after a successful run the user copies the produced
   logo_inverted.png over logo.png and starts the program again *)
Rerun ==
    /\ pc = "exit"
    /\ status = 0
    /\ run < MaxRuns
    /\ fs' = [fs EXCEPT ![input_path] = fs[output_path]]
    /\ fs0' = fs'
    /\ run' = run + 1
    /\ pc' = "start"
    /\ img' = NoImage
    /\ bands' = NoBands
    /\ rgb' = NoImage
    /\ inverted_rgb' = NoImage
    /\ inverted' = NoImage
    /\ exc' = NoExc
    /\ stdout' = <<>>
    /\ status' = Running
    /\ trace' = <<>>
    /\ UNCHANGED first

Next ==
    \/ main
    \/ Open
    \/ Normalize
    \/ Split
    \/ MergeRGB
    \/ InvertRGB
    \/ MergeRGBA
    \/ InvertDirect
    \/ Save
    \/ PrintSaved
    \/ Return
    \/ ExceptFileNotFoundError
    \/ ExceptException
    \/ Rerun

Spec == Init /\ [][Next]_vars

-----------------------------------------------------------------------------
(* Vocabulary of the properties *)

(* the image in logo.png when the current run started, and the image now in
   logo_inverted.png *)
In0 == Decode(fs0[input_path].data)
Out == Decode(fs[output_path].data)

(* the image in logo.png before the first run *)
Original == Decode(first.data)

Succeeded == pc = "exit" /\ status = 0

HasAlpha(im) == im.mode \in {"LA", "RGBA"}

Alpha(p) == p[Len(p)]

Color(mode, p) ==
    IF mode \in {"L", "LA"} THEN <<p[1], p[1], p[1]>> ELSE <<p[1], p[2], p[3]>>

InTrace(label) == \E i \in 1..Len(trace) : trace[i] = label

WellFormed(im) ==
    \/ im = NoImage
    \/ /\ im.mode \in Modes
       /\ im.size[1] >= 1 /\ im.size[2] >= 1
       /\ im.loaded =>
            /\ Len(im.px) = im.size[1] * im.size[2]
            /\ \A i \in 1..Len(im.px) : Len(im.px[i]) = NumBands(im.mode)

Scenario ==
    MkImage("RGBA", 2, 1, <<(<<10, 20, 30, 255>>), (<<0, 255, 128, 0>>)>>)

-----------------------------------------------------------------------------
(* C1: every input that has an alpha channel at load time, whatever its
   mode, yields an output with an alpha channel whose samples equal the
   input's alpha samples. *)
C1_AlphaPreserved ==
    (Succeeded /\ HasAlpha(In0)) =>
        /\ HasAlpha(Out)
        /\ Len(Out.px) = Len(In0.px)
        /\ \A i \in 1..Len(In0.px) : Alpha(Out.px[i]) = Alpha(In0.px[i])

(* C2: an RGBA pixel (r, g, b, a) becomes (255 - r, 255 - g, 255 - b, a), an
   RGB pixel (r, g, b) becomes (255 - r, 255 - g, 255 - b); the 2x1 RGBA
   image (10, 20, 30, 255), (0, 255, 128, 0) becomes (245, 235, 225, 255),
   (255, 0, 127, 0). *)
C2_PixelwiseInversion ==
    Succeeded =>
        /\ In0.mode = "RGBA" =>
             /\ Out.mode = "RGBA"
             /\ Len(Out.px) = Len(In0.px)
             /\ \A i \in 1..Len(In0.px) :
                  LET p == In0.px[i]
                  IN  Out.px[i] = <<255 - p[1], 255 - p[2], 255 - p[3], p[4]>>
        /\ In0.mode = "RGB" =>
             /\ Out.mode = "RGB"
             /\ Len(Out.px) = Len(In0.px)
             /\ \A i \in 1..Len(In0.px) :
                  LET p == In0.px[i]
                  IN  Out.px[i] = <<255 - p[1], 255 - p[2], 255 - p[3]>>
        /\ In0 = Scenario =>
             Out.px = <<(<<245, 235, 225, 255>>), (<<255, 0, 127, 0>>)>>

C2_Witness ==
    /\ Succeeded
    /\ run = 1
    /\ In0 = Scenario
    /\ Out.px = <<(<<245, 235, 225, 255>>), (<<255, 0, 127, 0>>)>>

(* C3: a single-channel grayscale input yields a three-channel output in
   which every channel of every pixel is 255 minus the input intensity. *)
C3_GrayscaleNormalized ==
    (Succeeded /\ In0.mode = "L") =>
        /\ Out.mode = "RGB"
        /\ Len(Out.px) = Len(In0.px)
        /\ \A i \in 1..Len(In0.px) :
             LET v == In0.px[i][1]
             IN  Out.px[i] = <<255 - v, 255 - v, 255 - v>>

C3_Witness ==
    /\ Succeeded
    /\ In0.mode = "L"
    /\ \E i \in 1..Len(In0.px) : In0.px[i] = <<128>> /\ Out.px[i] = <<127, 127, 127>>

(* C4: running the program on its own output yields the colours of the
   original image, pixel for pixel, and the original's alpha channel. *)
C4_RoundTrip ==
    (Succeeded /\ run = 2) =>
        /\ Len(Out.px) = Len(Original.px)
        /\ \A i \in 1..Len(Original.px) :
             Color(Out.mode, Out.px[i]) = Color(Original.mode, Original.px[i])
        /\ HasAlpha(Out) = HasAlpha(Original)
        /\ HasAlpha(Original) =>
             \A i \in 1..Len(Original.px) : Alpha(Out.px[i]) = Alpha(Original.px[i])

(* C5: when logo.png does not exist the run prints the fixed "not found"
   line, exits with status 1 and never prints the success line. *)
C5_MissingFile ==
    fs0[input_path].kind = "absent" =>
        /\ \A i \in 1..Len(stdout) :
             stdout[i].fmt # "Saved inverted image as: {output_path}"
        /\ pc # "exit" => ENABLED Next
        /\ pc = "exit" =>
             /\ status = 1
             /\ Len(stdout) = 1
             /\ stdout[1].fmt = "Error: logo.png not found in current directory."

C5_Witness ==
    /\ fs0[input_path].kind = "absent"
    /\ pc = "exit"
    /\ status = 1
    /\ stdout = <<NotFoundLine>>

(* C6: the fixed "not found" line is reported only when logo.png does not
   exist; every other failure is reported with the failure's own description
   and status 1. *)
C6_ErrorsByCause ==
    (pc = "exit" /\ exc # NoExc) =>
        /\ status = 1
        /\ Len(stdout) = 1
        /\ IF fs0[input_path].kind = "absent"
             THEN stdout[1].fmt = "Error: logo.png not found in current directory."
             ELSE stdout[1].fmt = "Error: {e}" /\ stdout[1].arg = exc.msg

(* C7: a run ends either with status 0 and the one success line naming the
   output path, or with status 1 and one error line; the success line is
   printed only after the save completed; no statement is attempted twice
   and nothing runs after a failure but its handler. *)
C7_OneOutcome ==
    /\ Len(stdout) <= 1
    /\ (status # Running) = (pc = "exit")
    /\ pc # "exit" => ENABLED Next
    /\ pc = "exit" =>
         /\ Len(stdout) = 1
         /\ \/ /\ status = 0
               /\ exc = NoExc
               /\ stdout[1].fmt = "Saved inverted image as: {output_path}"
               /\ stdout[1].arg = "logo_inverted.png"
            \/ /\ status = 1
               /\ exc # NoExc
               /\ stdout[1].fmt \in {"Error: logo.png not found in current directory.",
                                      "Error: {e}"}
    /\ (\E i \in 1..Len(stdout) :
           stdout[i].fmt = "Saved inverted image as: {output_path}") =>
         /\ exc = NoExc
         /\ InTrace("save")
         /\ fs[output_path].kind = "file"
         /\ fs[output_path].data = Encode(inverted)
    /\ \A i, j \in 1..Len(trace) : trace[i] = trace[j] => i = j
    /\ exc # NoExc => pc \in {"except", "exit"}

C7_Witness ==
    /\ pc = "exit"
    /\ status = 1
    /\ InTrace("save")
    /\ stdout = <<ErrorLine(Exc("OSError", "No space left on device"))>>

(* C8: whatever the mode of a valid input, the output image has the input's
   width and height. *)
C8_DimensionsPreserved ==
    Succeeded =>
        /\ Out.size = In0.size
        /\ BodyOK(fs[output_path].data)
        /\ Len(Out.px) = In0.size[1] * In0.size[2]

C8_Witness ==
    /\ Succeeded
    /\ In0.mode = "L"
    /\ In0.size = <<MaxW, MaxH>>
    /\ Out.size = <<MaxW, MaxH>>

(* C9: at every stage the channel count of each image matches its mode; after
   normalisation the mode is RGB or RGBA; invert is applied to three-channel
   images only; the saved image is RGBA exactly when the normalised one was. *)
C9_ChannelsMatchMode ==
    /\ WellFormed(img)
    /\ WellFormed(rgb)
    /\ WellFormed(inverted_rgb)
    /\ WellFormed(inverted)
    /\ \A c \in 1..Len(bands) :
         WellFormed(bands[c]) /\ bands[c].mode = "L" /\ bands[c].size = img.size
    /\ pc \in {"dispatch", "merge_rgb", "invert_rgb", "merge_rgba", "save",
               "print", "return"} => img.mode \in {"RGB", "RGBA"}
    /\ Succeeded => img.mode \in {"RGB", "RGBA"}
    /\ rgb # NoImage => rgb.mode = "RGB" /\ Len(bands) = 4
    /\ inverted_rgb # NoImage => inverted_rgb.mode = "RGB"
    /\ inverted # NoImage =>
         /\ inverted.mode = img.mode
         /\ inverted.mode \in {"RGB", "RGBA"}
         /\ inverted.mode = "RGBA" => inverted_rgb # NoImage
         /\ inverted.mode = "RGB" => inverted_rgb = NoImage
    /\ (pc \in {"print", "return"} \/ Succeeded) =>
         /\ HeaderOK(fs[output_path].data)
         /\ BodyOK(fs[output_path].data)
         /\ WellFormed(Out)
         /\ (Out.mode = "RGBA") = (img.mode = "RGBA")
         /\ Out.mode \in {"RGB", "RGBA"}

C9_Witness ==
    /\ pc = "merge_rgba"
    /\ img.mode = "RGBA"
    /\ Len(bands) = 4
    /\ inverted_rgb.mode = "RGB"
    /\ \A i \in 1..Len(inverted_rgb.px) : Len(inverted_rgb.px[i]) = 3

====
